---- MODULE Spec2Model ----
(***************************************************************************)
(* Process coordination helpers of convoy/util.py:                         *)
(*   subprocess_with_output, subprocess_wait_all, subprocess_wait_any,     *)
(*   subprocess_wait_multi.                                                *)
(*                                                                         *)
(* One caller thread runs one call at a time; child processes terminate    *)
(* asynchronously, at any moment between two steps of the caller.  Every   *)
(* status query (Popen.poll) and every sleep of the polling loops is one   *)
(* step, so that a termination can fall between any two queries.           *)
(***************************************************************************)
EXTENDS Integers, Sequences, FiniteSets, TLC

\* ---------------------------------------------------------------- bounds
NProcs == 3        \* process handles that exist
MaxLen == 2        \* longest collection handed to a wait call
MaxCalls == 2      \* calls the caller makes one after the other

Procs == 1..NProcs
Codes == {0, 1}    \* exit codes a process may end with: success and a failure

\* Python's None is the empty tuple, a value v that is present is <<v>>.
None == <<>>
Some(v) == <<v>>
Val(o) == o[1]

VARIABLES
    exitstatus,   \* [Procs -> None | Some(code)]: what the OS knows
    returncode,   \* [Procs -> None | Some(code)]: Popen.returncode attribute
    op,           \* function being executed ("idle" before the first call)
    pc,           \* position of the caller inside that function
    ncalls,       \* calls made so far
    procs,        \* argument of wait_all / wait_any: [isNone, items]
    procs1,       \* arguments of wait_multi
    procs2,
    i,            \* loop index (0-based, as in the source)
    rcodes,       \* wait_all: list of None | Some(code)
    ret,          \* value returned by wait_any / wait_multi / with_output
    exc,          \* exception the call ended with ("none" if none)
    suppress,     \* with_output: suppress_output argument
    devnull,      \* with_output: "None", "open", "closed"
    pending,      \* with_output: exception in flight when finally runs
    \* ---- observation (history) variables, never read by the program
    queried,      \* handles whose status was queried during this call
    slept,        \* TRUE once this call has slept
    lastpoll,     \* [h, rc]: handle and result of the last status query
    sweepstart,   \* handles that had exited with 0 when this sweep began
    cyclestart,   \* handles that had exited with 0 when this cycle began:
                  \* at the call, then at the end of each sweep of wait_any
    atreturn,     \* handles that had exited with 0 when the call returned
    reported      \* [Procs -> None | <<Some(code), call>>]: the first code
                  \* a wait call recorded or returned for the handle, and
                  \* the number of that call

prog == <<op, pc, ncalls, procs, procs1, procs2, i, rcodes, ret, exc,
          suppress, devnull, pending>>
obs == <<atreturn, reported>>
hist == <<queried, slept, lastpoll, sweepstart, cyclestart, obs>>
vars == <<exitstatus, returncode, prog, hist>>

\* ------------------------------------------------------------ the handles
\* The ordered collections of handles a caller can build: no handle twice.
Colls == {s \in UNION {[1..n -> Procs] : n \in 0..MaxLen} :
            \A a, b \in DOMAIN s : a # b => s[a] # s[b]}
NoneArg == [isNone |-> TRUE, items |-> <<>>]
ListArg(s) == [isNone |-> FALSE, items |-> s]
Args == {NoneArg} \cup {ListArg(s) : s \in Colls}
Range(s) == {s[k] : k \in DOMAIN s}
Zeroed == {h \in Procs : exitstatus[h] = Some(0)}
NoRet == [group |-> 0, index |-> 0, code |-> None]
NoPoll == [h |-> 0, rc |-> None]
Ended == pc \in {"returned", "raised"}

\* Popen.poll(): the returncode attribute is set the first time the process
\* is seen terminated and is what every later query answers.
PollResult(h) == IF returncode[h] # None THEN returncode[h] ELSE exitstatus[h]

\* The OS ends a running process with some exit code, once.
Terminate(h, c) ==
    /\ exitstatus[h] = None
    /\ exitstatus' = [exitstatus EXCEPT ![h] = Some(c)]
    /\ UNCHANGED <<returncode, prog, hist>>

\* (bug) procs[i].terminate() is sent to a handle found running
QueryTerminate(h) ==
    /\ returncode' = [returncode EXCEPT ![h] = PollResult(h)]
    /\ queried' = queried \cup {h}
    /\ lastpoll' = [h |-> h, rc |-> PollResult(h)]
    /\ exitstatus' = IF exitstatus[h] = None
                       THEN [exitstatus EXCEPT ![h] = Some(1)]
                       ELSE exitstatus

\* procs[k].poll() as one step of the caller (k is 0-based).
Query(h) ==
    /\ returncode' = [returncode EXCEPT ![h] = PollResult(h)]
    /\ queried' = queried \cup {h}
    /\ lastpoll' = [h |-> h, rc |-> PollResult(h)]
    /\ UNCHANGED exitstatus

\* ------------------------------------------------- conditions of the code
\* (bug) only `procs is None` is tested
InvalidArgNoneOnly(p) == p.isNone
\* procs is None or len(procs) == 0
InvalidArg(p) == p.isNone \/ Len(p.items) = 0
\* (bug) `or` between the two tests instead of `and`
EitherInvalid(p1, p2) == InvalidArg(p1) \/ InvalidArg(p2)
\* (procs1 is None or len(procs1) == 0) and (procs2 is None or ...)
BothInvalid(p1, p2) == InvalidArg(p1) /\ InvalidArg(p2)
\* procs1 is not None and len(procs1) > 0
Scanned(p) == ~p.isNone /\ Len(p.items) > 0
\* (bug) the `rcodes[i] is None` test is missing: every handle is queried
UnfilledUntested(k) == TRUE
\* rcodes[i] is None
Unfilled(k) == rcodes[k + 1] = None
\* (bug) `not procs[i].poll()`: None is as false as 0
DetectedFalsy(rc) == rc = None \/ rc = Some(0)
\* (bug) `procs[i].poll() is not None`: any terminal status counts
DetectedAnyCode(rc) == rc # None
\* procs[i].poll() == 0
Detected(rc) == rc = Some(0)
\* (bug) any(...) instead of all(...)
AnyFilled(rc) == \E k \in DOMAIN rc : rc[k] # None
\* all(x is not None for x in rcodes)
AllFilled(rc) == \A k \in DOMAIN rc : rc[k] # None
\* (bug) rcodes[i] = i
CaptureIndex(h) == Some(i)
\* rcodes[i] = procs[i].returncode, read after the query
Capture(h) == returncode'[h]
\* (bug) a 1-based position is returned
AnyResultOneBased(k, h) == [group |-> 0, index |-> k + 1, code |-> returncode'[h]]
\* (bug) the position is returned in place of the code
AnyResultNoCode(k, h) == [group |-> 0, index |-> k, code |-> Some(k)]
\* return i, procs[i].returncode
AnyResult(k, h) == [group |-> 0, index |-> k, code |-> returncode'[h]]
\* (bug) the two return statements name each other's group
MultiResultSwapped(g, k, h) == [group |-> 3 - g, index |-> k, code |-> returncode'[h]]
\* (bug) both return statements name procs1
MultiResultFirstGroup(g, k, h) == [group |-> 1, index |-> k, code |-> returncode'[h]]
\* return procs1, i, procs1[i].returncode
MultiResult(g, k, h) == [group |-> g, index |-> k, code |-> returncode'[h]]

\* ------------------------------------------------------------- the calls
Begin(f) ==
    /\ pc \in {"idle", "returned", "raised"}
    /\ ncalls < MaxCalls
    /\ ncalls' = ncalls + 1
    /\ op' = f
    /\ pc' = "entry"
    /\ i' = 0
    /\ rcodes' = <<>>
    /\ ret' = NoRet
    /\ exc' = "none"
    /\ devnull' = "None"
    /\ pending' = "none"
    /\ queried' = {}
    /\ slept' = FALSE
    /\ lastpoll' = NoPoll
    /\ sweepstart' = {}
    /\ cyclestart' = {}
    /\ atreturn' = {}
    /\ UNCHANGED <<exitstatus, returncode, reported>>

CallWaitAll(p) ==
    /\ Begin("wait_all")
    /\ procs' = p
    /\ UNCHANGED <<procs1, procs2, suppress>>

CallWaitAny(p) ==
    /\ Begin("wait_any")
    /\ procs' = p
    /\ UNCHANGED <<procs1, procs2, suppress>>

CallWaitMulti(p1, p2) ==
    /\ Begin("wait_multi")
    /\ procs1' = p1
    /\ procs2' = p2
    /\ UNCHANGED <<procs, suppress>>

CallWithOutput(s) ==
    /\ Begin("with_output")
    /\ suppress' = s
    /\ UNCHANGED <<procs, procs1, procs2>>

\* The call returns to its caller.
Return ==
    /\ pc' = "returned"
    /\ atreturn' = Zeroed

\* A wait call records code rc for handle h.
Report(h, rc) ==
    reported' = IF reported[h] = None
                  THEN [reported EXCEPT ![h] = <<rc, ncalls>>]
                  ELSE reported

Raise(e) ==
    /\ pc' = "raised"
    /\ exc' = e

\* (bug) range(1, len(procs)): position 0 is never queried
SweepBeginsAtOne ==
    /\ pc' = "sweep"
    /\ i' = 1
    /\ sweepstart' = Zeroed

\* A sweep begins: `while True:` is entered or re-entered.
SweepBegins ==
    /\ pc' = "sweep"
    /\ i' = 0
    /\ sweepstart' = Zeroed

\* The first sweep begins, at the call.
FirstSweep ==
    /\ SweepBegins
    /\ cyclestart' = Zeroed

\* -------------------------------------------------- subprocess_wait_all
AllEntry ==
    /\ op = "wait_all" /\ pc = "entry"
    /\ IF InvalidArg(procs)
         THEN /\ Raise("ValueError")
              /\ UNCHANGED <<i, rcodes, sweepstart, cyclestart>>
         ELSE /\ rcodes' = [k \in 1..Len(procs.items) |-> None]
              /\ FirstSweep
              /\ UNCHANGED exc
    /\ UNCHANGED <<exitstatus, returncode, op, ncalls, procs, procs1, procs2,
                   ret, suppress, devnull, pending,
                   queried, slept, lastpoll, obs>>

\* One iteration of `for i in range(0, len(procs))`.
AllPoll ==
    /\ op = "wait_all" /\ pc = "sweep"
    /\ i < Len(procs.items)
    /\ LET h == procs.items[i + 1] IN
         IF Unfilled(i)
           THEN /\ Query(h)
                /\ IF Detected(PollResult(h))
                     THEN /\ rcodes' = [rcodes EXCEPT ![i + 1] = Capture(h)]
                          /\ Report(h, Capture(h))
                     ELSE UNCHANGED <<rcodes, reported>>
           ELSE UNCHANGED <<exitstatus, returncode, queried, lastpoll,
                            rcodes, reported>>
    /\ i' = i + 1
    /\ UNCHANGED <<op, pc, ncalls, procs, procs1, procs2, ret, exc,
                   suppress, devnull, pending, slept, sweepstart, cyclestart, atreturn>>

\* After the for loop: break and return rcodes, or go to sleep.
AllCheck ==
    /\ op = "wait_all" /\ pc = "sweep"
    /\ i = Len(procs.items)
    /\ IF AllFilled(rcodes)
         THEN Return
         ELSE pc' = "sleep" /\ UNCHANGED atreturn
    /\ UNCHANGED <<exitstatus, returncode, op, ncalls, procs, procs1, procs2,
                   i, rcodes, ret, exc, suppress, devnull, pending,
                   queried, slept, lastpoll, sweepstart, cyclestart, reported>>

\* time.sleep(0.03), the last statement of each of the three `while True:`.
Sleep ==
    /\ op \in {"wait_all", "wait_any", "wait_multi"} /\ pc = "sleep"
    /\ slept' = TRUE
    /\ SweepBegins
    /\ UNCHANGED <<exitstatus, returncode, op, ncalls, procs, procs1, procs2,
                   rcodes, ret, exc, suppress, devnull, pending,
                   queried, lastpoll, cyclestart, obs>>

\* -------------------------------------------------- subprocess_wait_any
AnyEntry ==
    /\ op = "wait_any" /\ pc = "entry"
    /\ IF InvalidArg(procs)
         THEN /\ Raise("ValueError")
              /\ UNCHANGED <<i, sweepstart, cyclestart>>
         ELSE /\ FirstSweep
              /\ UNCHANGED exc
    /\ UNCHANGED <<exitstatus, returncode, op, ncalls, procs, procs1, procs2,
                   rcodes, ret, suppress, devnull, pending,
                   queried, slept, lastpoll, obs>>

\* One iteration of the for loop: return at the first handle seen at 0.
AnyPoll ==
    /\ op = "wait_any" /\ pc = "sweep"
    /\ i < Len(procs.items)
    /\ LET h == procs.items[i + 1] IN
         /\ Query(h)
         /\ IF Detected(PollResult(h))
              THEN /\ Return
                   /\ ret' = AnyResult(i, h)
                   /\ Report(h, (AnyResult(i, h)).code)
                   /\ UNCHANGED i
              ELSE /\ i' = i + 1
                   /\ UNCHANGED <<pc, ret, obs>>
    /\ UNCHANGED <<op, ncalls, procs, procs1, procs2, rcodes, exc,
                   suppress, devnull, pending, slept, sweepstart, cyclestart>>

\* The for loop ran out: on to time.sleep.
AnySweepEnd ==
    /\ op = "wait_any" /\ pc = "sweep"
    /\ i = Len(procs.items)
    /\ pc' = "sleep"
    /\ cyclestart' = Zeroed
    /\ UNCHANGED <<exitstatus, returncode, op, ncalls, procs, procs1, procs2,
                   i, rcodes, ret, exc, suppress, devnull, pending,
                   queried, slept, lastpoll, sweepstart, obs>>

\* ------------------------------------------------ subprocess_wait_multi
MultiEntry ==
    /\ op = "wait_multi" /\ pc = "entry"
    /\ IF BothInvalid(procs1, procs2)
         THEN /\ Raise("ValueError")
              /\ UNCHANGED <<i, sweepstart, cyclestart>>
         ELSE /\ FirstSweep
              /\ UNCHANGED exc
    /\ UNCHANGED <<exitstatus, returncode, op, ncalls, procs, procs1, procs2,
                   rcodes, ret, suppress, devnull, pending,
                   queried, slept, lastpoll, obs>>

\* One iteration of the for loop over group g (p is procs1 or procs2).
MultiPoll(g, p, at) ==
    /\ op = "wait_multi" /\ pc = at
    /\ Scanned(p)
    /\ i < Len(p.items)
    /\ LET h == p.items[i + 1] IN
         /\ Query(h)
         /\ IF Detected(PollResult(h))
              THEN /\ Return
                   /\ ret' = MultiResult(g, i, h)
                   /\ Report(h, (MultiResult(g, i, h)).code)
                   /\ UNCHANGED i
              ELSE /\ i' = i + 1
                   /\ UNCHANGED <<pc, ret, obs>>
    /\ UNCHANGED <<op, ncalls, procs, procs1, procs2, rcodes, exc,
                   suppress, devnull, pending, slept, sweepstart, cyclestart>>

MultiPoll1 == MultiPoll(1, procs1, "sweep")
MultiPoll2 == MultiPoll(2, procs2, "sweep2")

\* Group 1 is skipped or its loop ran out: on to group 2.
MultiNext1 ==
    /\ op = "wait_multi" /\ pc = "sweep"
    /\ ~Scanned(procs1) \/ i = Len(procs1.items)
    /\ pc' = "sweep2"
    /\ i' = 0
    /\ UNCHANGED <<exitstatus, returncode, op, ncalls, procs, procs1, procs2,
                   rcodes, ret, exc, suppress, devnull, pending, hist>>

\* Group 2 is skipped or its loop ran out: on to time.sleep.
MultiNext2 ==
    /\ op = "wait_multi" /\ pc = "sweep2"
    /\ ~Scanned(procs2) \/ i = Len(procs2.items)
    /\ pc' = "sleep"
    /\ UNCHANGED <<exitstatus, returncode, op, ncalls, procs, procs1, procs2,
                   i, rcodes, ret, exc, suppress, devnull, pending,
                   queried, slept, lastpoll, sweepstart, cyclestart, obs>>

\* ----------------------------------------------- subprocess_with_output
\* (bug) no finally: the sink is closed on the normal path only
ClosesOnSuccess(dn, e) == dn # "None" /\ e = "none"
\* What the finally clause does: `if _devnull is not None: _devnull.close()`.
\* e is the exception in flight ("none" on the normal path).
Closes(dn, e) == dn # "None"

\* if suppress_output: _devnull = open(os.devnull, 'w'); open may fail.
OutOpen ==
    /\ op = "with_output" /\ pc = "entry"
    /\ IF suppress
         THEN \/ devnull' = "open" /\ pc' = "spawn" /\ UNCHANGED pending
              \/ pending' = "OpenError" /\ pc' = "finally" /\ UNCHANGED devnull
         ELSE pc' = "spawn" /\ UNCHANGED <<devnull, pending>>
    /\ UNCHANGED <<exitstatus, returncode, op, ncalls, procs, procs1, procs2,
                   i, rcodes, ret, exc, suppress, hist>>

\* subprocess.Popen(...): the child is created, or the spawn fails.
OutSpawn ==
    /\ op = "with_output" /\ pc = "spawn"
    /\ \/ pc' = "wait" /\ UNCHANGED pending
       \/ pc' = "finally" /\ pending' = "SpawnError"
    /\ UNCHANGED <<exitstatus, returncode, op, ncalls, procs, procs1, procs2,
                   i, rcodes, ret, exc, suppress, devnull, hist>>

\* proc.wait(): the child ends with some code, or the wait is interrupted.
OutWait ==
    /\ op = "with_output" /\ pc = "wait"
    /\ \/ \E c \in Codes :
            /\ ret' = [group |-> 0, index |-> 0, code |-> Some(c)]
            /\ pc' = "finally"
            /\ UNCHANGED pending
       \/ pc' = "finally" /\ pending' = "WaitError" /\ UNCHANGED ret
    /\ UNCHANGED <<exitstatus, returncode, op, ncalls, procs, procs1, procs2,
                   i, rcodes, exc, suppress, devnull, hist>>

\* The finally clause, then `return proc.returncode` or the exception in
\* flight.  close() releases the sink even when it reports a failure, and an
\* exception raised inside finally replaces the one in flight.
OutFinally ==
    /\ op = "with_output" /\ pc = "finally"
    /\ IF Closes(devnull, pending)
         THEN /\ devnull' = "closed"
              /\ \/ Raise("CloseError")
                 \/ IF pending = "none"
                      THEN pc' = "returned" /\ UNCHANGED exc
                      ELSE Raise(pending)
         ELSE /\ UNCHANGED devnull
              /\ IF pending = "none"
                   THEN pc' = "returned" /\ UNCHANGED exc
                   ELSE Raise(pending)
    /\ UNCHANGED <<exitstatus, returncode, op, ncalls, procs, procs1, procs2,
                   i, rcodes, ret, suppress, pending, hist>>

\* Two groups given to wait_multi share no handle.
ArgPairs == {pp \in Args \X Args :
               Range(pp[1].items) \cap Range(pp[2].items) = {}}

Init ==
    /\ exitstatus = [h \in Procs |-> None]
    /\ returncode = [h \in Procs |-> None]
    /\ op = "idle"
    /\ pc = "idle"
    /\ ncalls = 0
    /\ procs = NoneArg
    /\ procs1 = NoneArg
    /\ procs2 = NoneArg
    /\ i = 0
    /\ rcodes = <<>>
    /\ ret = NoRet
    /\ exc = "none"
    /\ suppress = FALSE
    /\ devnull = "None"
    /\ pending = "none"
    /\ queried = {}
    /\ slept = FALSE
    /\ lastpoll = NoPoll
    /\ sweepstart = {}
    /\ cyclestart = {}
    /\ atreturn = {}
    /\ reported = [h \in Procs |-> None]

Next ==
    \/ \E h \in Procs, c \in Codes : Terminate(h, c)
    \/ \E p \in Args : CallWaitAll(p)
    \/ AllEntry
    \/ AllPoll
    \/ AllCheck
    \/ Sleep
    \/ \E p \in Args : CallWaitAny(p)
    \/ AnyEntry
    \/ AnyPoll
    \/ AnySweepEnd
    \/ \E pp \in ArgPairs : CallWaitMulti(pp[1], pp[2])
    \/ MultiEntry
    \/ MultiPoll1
    \/ MultiNext1
    \/ MultiPoll2
    \/ MultiNext2
    \/ \E s \in BOOLEAN : CallWithOutput(s)
    \/ OutOpen
    \/ OutSpawn
    \/ OutWait
    \/ OutFinally

Spec == Init /\ [][Next]_vars

\* The same program with a caller that makes one call, of one function.
FirstCall == pc = "idle"

NextAll ==
    \/ \E h \in Procs, c \in Codes : Terminate(h, c)
    \/ \E p \in Args : FirstCall /\ CallWaitAll(p)
    \/ AllEntry
    \/ AllPoll
    \/ AllCheck
    \/ Sleep

NextAny ==
    \/ \E h \in Procs, c \in Codes : Terminate(h, c)
    \/ \E p \in Args : FirstCall /\ CallWaitAny(p)
    \/ AnyEntry
    \/ AnyPoll
    \/ AnySweepEnd
    \/ Sleep

NextMulti ==
    \/ \E h \in Procs, c \in Codes : Terminate(h, c)
    \/ \E pp \in ArgPairs : FirstCall /\ CallWaitMulti(pp[1], pp[2])
    \/ MultiEntry
    \/ MultiPoll1
    \/ MultiNext1
    \/ MultiPoll2
    \/ MultiNext2
    \/ Sleep

\* One call of subprocess_wait_all or of subprocess_wait_any.
NextAllAny ==
    \/ \E h \in Procs, c \in Codes : Terminate(h, c)
    \/ \E p \in Args : FirstCall /\ CallWaitAll(p)
    \/ \E p \in Args : FirstCall /\ CallWaitAny(p)
    \/ AllEntry
    \/ AllPoll
    \/ AllCheck
    \/ AnyEntry
    \/ AnyPoll
    \/ AnySweepEnd
    \/ Sleep

\* subprocess_with_output, called up to MaxCalls times.
NextOut ==
    \/ \E h \in Procs, c \in Codes : Terminate(h, c)
    \/ \E s \in BOOLEAN : CallWithOutput(s)
    \/ OutOpen
    \/ OutSpawn
    \/ OutWait
    \/ OutFinally

SpecAll == Init /\ [][NextAll]_vars
SpecAny == Init /\ [][NextAny]_vars
SpecMulti == Init /\ [][NextMulti]_vars
SpecOut == Init /\ [][NextOut]_vars
SpecAllAny == Init /\ [][NextAllAny]_vars

\* One call of subprocess_wait_any or of subprocess_wait_multi.
NextAnyMulti ==
    \/ \E h \in Procs, c \in Codes : Terminate(h, c)
    \/ \E p \in Args : FirstCall /\ CallWaitAny(p)
    \/ \E pp \in ArgPairs : FirstCall /\ CallWaitMulti(pp[1], pp[2])
    \/ AnyEntry
    \/ AnyPoll
    \/ AnySweepEnd
    \/ Sleep
    \/ MultiEntry
    \/ MultiPoll1
    \/ MultiNext1
    \/ MultiPoll2
    \/ MultiNext2

\* One call of one of the three wait functions.
NextWait ==
    \/ \E h \in Procs, c \in Codes : Terminate(h, c)
    \/ \E p \in Args : FirstCall /\ CallWaitAll(p)
    \/ \E p \in Args : FirstCall /\ CallWaitAny(p)
    \/ \E pp \in ArgPairs : FirstCall /\ CallWaitMulti(pp[1], pp[2])
    \/ AllEntry
    \/ AllPoll
    \/ AllCheck
    \/ AnyEntry
    \/ AnyPoll
    \/ AnySweepEnd
    \/ Sleep
    \/ MultiEntry
    \/ MultiPoll1
    \/ MultiNext1
    \/ MultiPoll2
    \/ MultiNext2

SpecAnyMulti == Init /\ [][NextAnyMulti]_vars
SpecWait == Init /\ [][NextWait]_vars

\* The caller's thread is never suspended for ever: whenever the polling
\* loop can take its next step (a query, the test after a sweep, the end of
\* a sleep) it eventually does.  Nothing is assumed of the processes.
AllLoop == AllEntry \/ AllPoll \/ AllCheck \/ Sleep
AnyLoop == AnyEntry \/ AnyPoll \/ AnySweepEnd \/ Sleep
FairAll == Init /\ [][NextAll]_vars /\ WF_vars(AllLoop)
FairAny == Init /\ [][NextAny]_vars /\ WF_vars(AnyLoop)

\* =================================================================
\* Properties
\* =================================================================
\* Vocabulary of the properties, independent of the program's own tests.
NullOrEmpty(p) == p.isNone \/ p.items = <<>>
N == Len(procs.items)
Handle(k) == procs.items[k + 1]          \* handle at 0-based position k
AllReturned == op = "wait_all" /\ pc = "returned"
AnyReturned == op = "wait_any" /\ pc = "returned"
MultiReturned == op = "wait_multi" /\ pc = "returned"

\* C1: when subprocess_wait_all has returned and every process of its
\* collection exited with code 0, the list returned has the length of the
\* collection and position k holds the exit code of the handle at input
\* position k (so N zeros), whatever the order of the terminations.
C1_PositionMatched ==
    (AllReturned /\ \A k \in 0..N-1 : exitstatus[Handle(k)] = Some(0))
      => /\ Len(rcodes) = N
         /\ \A k \in 0..N-1 : rcodes[k + 1] = exitstatus[Handle(k)]
         /\ \A k \in 0..N-1 : rcodes[k + 1] = Some(0)

\* C1 witness: a two-handle call has returned, and the handle at position 1
\* had exited before the last sweep while the one at position 0 had not.
C1_Witness ==
    /\ AllReturned
    /\ N = 2
    /\ sweepstart = {Handle(1)}
    /\ rcodes = <<Some(0), Some(0)>>

\* C2: in every state in which subprocess_wait_all has returned, every
\* handle of its collection has terminated.
C2_NoRunningAtReturn ==
    AllReturned => \A k \in 0..N-1 : exitstatus[Handle(k)] # None

\* C2 witness: the call has returned after at least one sleep, having
\* waited for a handle that was still running during the first sweep.
C2_Witness ==
    /\ AllReturned
    /\ N = 2
    /\ slept
    /\ \A k \in 0..N-1 : exitstatus[Handle(k)] # None

\* C3: subprocess_wait_all and subprocess_wait_any, called with None or with
\* an empty collection, end in ValueError, and do so before any status query
\* and before any sleep, with no exit code captured, nothing recorded and no
\* handle touched by the step that raises.
C3_Outcome ==
    (op \in {"wait_all", "wait_any"} /\ NullOrEmpty(procs) /\ pc # "entry")
      => /\ pc = "raised" /\ exc = "ValueError"
         /\ queried = {} /\ lastpoll = NoPoll
         /\ ~slept
         /\ rcodes = <<>> /\ ret = NoRet

C3_Step ==
    (op \in {"wait_all", "wait_any"} /\ NullOrEmpty(procs)
       /\ pc = "entry" /\ pc' # "entry")
      => UNCHANGED <<exitstatus, returncode, reported>>

\* C3: both parts, the outcome in every state and the raising step.
C3_InvalidArgument == [](C3_Outcome) /\ [][C3_Step]_vars

\* C3 witness: wait_any was given an empty list while a process that had
\* already exited was still unobserved; the call has raised.
C3_Witness ==
    /\ op = "wait_any" /\ ~procs.isNone /\ procs.items = <<>>
    /\ pc = "raised" /\ exc = "ValueError"
    /\ \E h \in Procs : exitstatus[h] = Some(0) /\ returncode[h] = None

\* C4: subprocess_wait_multi ends in ValueError exactly when both groups
\* are None or empty.  With exactly one group None or empty it raises
\* nothing, queries only handles of the other group, and when it returns it
\* names the other group and a handle of it that exited with 0.
C4_OtherGroup == IF NullOrEmpty(procs1) THEN 2 ELSE 1
C4_OtherItems == IF NullOrEmpty(procs1) THEN procs2.items ELSE procs1.items
C4_BothEmptyOnly ==
    (op = "wait_multi" /\ pc # "entry")
      => /\ (pc = "raised") <=> (NullOrEmpty(procs1) /\ NullOrEmpty(procs2))
         /\ pc = "raised" => exc = "ValueError" /\ queried = {}
         /\ (NullOrEmpty(procs1) # NullOrEmpty(procs2))
              => /\ queried \subseteq Range(C4_OtherItems)
                 /\ pc = "returned"
                      => /\ ret.group = C4_OtherGroup
                         /\ ret.index < Len(C4_OtherItems)
                         /\ C4_OtherItems[ret.index + 1] \in atreturn
                         /\ ret.code = Some(0)

\* C4 witness: group 1 is None, group 2 has two handles, and the call has
\* returned the second handle of group 2.
C4_Witness ==
    /\ MultiReturned
    /\ procs1.isNone
    /\ Len(procs2.items) = 2
    /\ ret = [group |-> 2, index |-> 1, code |-> Some(0)]

\* Positions of the collection of wait_any whose handle is in set S.
Positions(S) == {k \in 0..N-1 : Handle(k) \in S}
Lowest(K) == CHOOSE k \in K : \A m \in K : k <= m

\* C5 (as stated): when wait_any returns and two or more handles of the
\* collection exited with 0 during the polling cycle that ends with the
\* return (none before it), the index returned is the lowest of theirs.
C5_Original ==
    (AnyReturned
       /\ Positions(cyclestart) = {}
       /\ Cardinality(Positions(atreturn \ cyclestart)) >= 2)
      => ret.index = Lowest(Positions(atreturn \ cyclestart))

\* C5 (amended): the index wait_any returns is never above the position of a
\* handle that had exited with 0 when the returning sweep began, and it is
\* the lowest such position whenever no handle of the collection exited with
\* 0 during that sweep; a sweep that began with such a handle returns.
C5_LowestAtSweepStart ==
    /\ AnyReturned
         => /\ \A k \in Positions(sweepstart) : ret.index <= k
            /\ Positions(atreturn \ sweepstart) = {}
                 => ret.index = Lowest(Positions(sweepstart))
    /\ (op = "wait_any" /\ pc = "sleep") => Positions(sweepstart) = {}

\* C5 witness: both handles of a two-handle collection exited with 0 during
\* the same sleep, and the sweep after it returned position 0.
C5_Witness ==
    /\ AnyReturned
    /\ N = 2
    /\ slept
    /\ cyclestart = {}
    /\ sweepstart = {Handle(0), Handle(1)}
    /\ ret.index = 0

\* C6: with both groups non-empty, when wait_multi returns while no handle
\* of group 1 has exited with 0 (in particular while all of them are still
\* running), it returns group 2, the position in group 2 of a handle that
\* exited with 0, and code 0; it does not name group 1.
C6_SecondGroup ==
    (MultiReturned /\ ~NullOrEmpty(procs1) /\ ~NullOrEmpty(procs2)
       /\ Range(procs1.items) \cap atreturn = {})
      => /\ ret.group = 2
         /\ ret.index \in 0..Len(procs2.items)-1
         /\ procs2.items[ret.index + 1] \in atreturn
         /\ ret.code = Some(0)

\* C6 witness: group 1 has two handles, both still running, group 2 has one,
\* and the call has returned (group 2, 0, 0).
C6_Witness ==
    /\ MultiReturned
    /\ Len(procs1.items) = 2 /\ Len(procs2.items) = 1
    /\ \A h \in Range(procs1.items) : exitstatus[h] = None
    /\ ret = [group |-> 2, index |-> 0, code |-> Some(0)]

\* C7: the exit status of a handle is immutable once terminal.  A process
\* ends once; a status query made after the code was first observed answers
\* that code; the code a wait call reports is the answer of the query that
\* detected the handle, and equals the code any earlier call recorded for it.
C7_Returned(items) ==
    /\ ret.index \in 0..Len(items)-1
    /\ lastpoll = [h |-> items[ret.index + 1], rc |-> ret.code]
    /\ ret.code = exitstatus[items[ret.index + 1]]
    /\ reported[items[ret.index + 1]] # None
    /\ reported[items[ret.index + 1]][1] = ret.code

C7_State ==
    /\ \A h \in Procs : returncode[h] # None => returncode[h] = exitstatus[h]
    /\ AnyReturned => C7_Returned(procs.items)
    /\ MultiReturned
         => C7_Returned(IF ret.group = 1 THEN procs1.items ELSE procs2.items)
    /\ (op = "wait_all" /\ pc \in {"sweep", "sleep", "returned"})
         => \A k \in 0..N-1 :
              rcodes[k + 1] # None
                => /\ rcodes[k + 1] = exitstatus[Handle(k)]
                   /\ reported[Handle(k)] # None
                   /\ reported[Handle(k)][1] = rcodes[k + 1]

C7_Step ==
    /\ \A h \in Procs :
         /\ exitstatus[h] # None => exitstatus'[h] = exitstatus[h]
         /\ returncode[h] # None => returncode'[h] = returncode[h]
    /\ (lastpoll' # lastpoll /\ lastpoll'.h \in Procs)
         => /\ lastpoll'.rc = returncode'[lastpoll'.h]
            /\ returncode[lastpoll'.h] # None
                 => lastpoll'.rc = returncode[lastpoll'.h]

\* C7: both parts, what holds in every state and what every step keeps.
C7_Immutable == [](C7_State) /\ [][C7_Step]_vars

\* C7 witness: the second call, a wait_any, has returned code 0 for a handle
\* whose code the first call had already recorded.
C7_Witness ==
    /\ AnyReturned
    /\ ncalls = 2
    /\ ret.code = Some(0)
    /\ reported[Handle(ret.index)] = <<Some(0), 1>>

\* C8: in every state in which a subprocess_with_output call has ended,
\* by return or by exception, the sink it opened is closed.
C8_SinkClosed ==
    (op = "with_output" /\ Ended) => devnull # "open"

\* C8 witness: output was suppressed, the spawn failed, the call has ended
\* with the spawn error and the sink is closed.
C8_Witness ==
    /\ op = "with_output" /\ suppress
    /\ pc = "raised" /\ exc = "SpawnError"
    /\ devnull = "closed"

\* C9: when the spawn or the wait of subprocess_with_output failed, the
\* exception the caller gets is that failure, also when closing the sink
\* failed after it.
C9_NotMasked ==
    (op = "with_output" /\ pc = "raised"
       /\ pending \in {"SpawnError", "WaitError"})
      => exc = pending

\* C10: a handle of subprocess_wait_all that terminated with a nonzero code
\* never has its slot filled, and the call does not return, also once every
\* process of the collection has terminated.
C10_NonzeroStalls ==
    (op = "wait_all" /\ pc \in {"sweep", "sleep", "returned"})
      => \A k \in 0..N-1 :
           (exitstatus[Handle(k)] # None /\ exitstatus[Handle(k)] # Some(0))
             => rcodes[k + 1] = None /\ pc # "returned"

\* C10 witness: both processes have terminated, the one at position 1 with
\* a nonzero code; the slot of the other is filled and the call is asleep
\* again after an earlier sleep.
C10_Witness ==
    /\ op = "wait_all" /\ pc = "sleep" /\ slept
    /\ N = 2
    /\ exitstatus[Handle(0)] = Some(0) /\ rcodes[1] = Some(0)
    /\ exitstatus[Handle(1)] = Some(1) /\ rcodes[2] = None

\* Exit status of handle h as a nonzero code.
Failed(h) == exitstatus[h] # None /\ exitstatus[h] # Some(0)
\* The handles of a group of wait_multi (none for None).
Members(p) == Range(p.items)
\* The handle wait_any / wait_multi named in the value it returned.
Named ==
    IF op = "wait_any" THEN procs.items[ret.index + 1]
    ELSE IF ret.group = 1 THEN procs1.items[ret.index + 1]
    ELSE procs2.items[ret.index + 1]

\* C11: while every handle given to subprocess_wait_any (every handle of
\* both groups given to subprocess_wait_multi) has terminated with a nonzero
\* code, the call has not returned; a handle that terminated with a nonzero
\* code is never the one a call returns.
C11_NonzeroNeverReported ==
    /\ (op = "wait_any" /\ ~NullOrEmpty(procs) /\ pc # "entry"
          /\ \A h \in Members(procs) : Failed(h))
         => pc \in {"sweep", "sleep"}
    /\ (op = "wait_multi" /\ ~(NullOrEmpty(procs1) /\ NullOrEmpty(procs2))
          /\ pc # "entry"
          /\ \A h \in Members(procs1) \cup Members(procs2) : Failed(h))
         => pc \in {"sweep", "sweep2", "sleep"}
    /\ (AnyReturned \/ MultiReturned) => ~Failed(Named)

\* C11 witness: both groups of a wait_multi call are non-empty, every handle
\* has been seen terminated with code 1, and the call is sweeping again.
C11_Witness ==
    /\ op = "wait_multi" /\ pc = "sweep" /\ i = 0
    /\ ~NullOrEmpty(procs1) /\ ~NullOrEmpty(procs2)
    /\ \A h \in Members(procs1) \cup Members(procs2) : returncode[h] = Some(1)

\* C12: during a subprocess_wait_all call a filled slot of rcodes keeps its
\* value, and the iteration of a later sweep that comes to a filled slot
\* makes no status query (nothing of the handle is read or written).
C12_Step ==
    (op = "wait_all" /\ op' = "wait_all" /\ pc \in {"sweep", "sleep"})
      => /\ \A k \in DOMAIN rcodes :
              rcodes[k] # None => rcodes'[k] = rcodes[k]
         /\ (pc = "sweep" /\ i < N /\ i' = i + 1 /\ rcodes[i + 1] # None)
              => UNCHANGED <<returncode, queried, lastpoll, reported>>

C12_RecordedOnce == [][C12_Step]_vars

\* C12 witness: a sweep after a sleep has just passed the filled slot 0
\* without a query: the last query made is still that of the other handle.
C12_Witness ==
    /\ op = "wait_all" /\ pc = "sweep" /\ i = 1 /\ slept
    /\ N = 2
    /\ rcodes[1] = Some(0) /\ rcodes[2] = None
    /\ lastpoll.h = Handle(1)

\* 0-based positions of group p whose handle is in set S.
PositionsIn(p, S) == {k \in 0..Len(p.items)-1 : p.items[k + 1] \in S}

\* C13 (as stated): when wait_multi returns from a cycle at whose start a
\* handle of group 1 and a handle of group 2 had already exited with 0, it
\* returns group 1 and the lowest position of group 1 that had.
C13_Original ==
    (MultiReturned
       /\ PositionsIn(procs1, sweepstart) # {}
       /\ PositionsIn(procs2, sweepstart) # {})
      => /\ ret.group = 1
         /\ ret.index = Lowest(PositionsIn(procs1, sweepstart))

\* C13 (amended): group 1 is scanned first, in ascending order.  When a
\* handle of group 1 had exited with 0 at the start of a cycle, no handle of
\* group 2 is queried in that cycle and the call returns group 1 with a
\* position not above the lowest such position of group 1; it is that
\* position unless a handle of group 1 exited with 0 during the cycle.
C13_FirstGroupFirst ==
    /\ (op = "wait_multi" /\ PositionsIn(procs1, sweepstart) # {})
         => /\ pc \in {"sweep", "returned"}
            /\ pc = "sweep"
                 => \A k \in PositionsIn(procs1, sweepstart) : i <= k
    /\ (MultiReturned /\ PositionsIn(procs1, sweepstart) # {})
         => /\ ret.group = 1
            /\ \A k \in PositionsIn(procs1, sweepstart) : ret.index <= k
            /\ PositionsIn(procs1, atreturn \ sweepstart) = {}
                 => ret.index = Lowest(PositionsIn(procs1, sweepstart))

\* C13 witness: at the start of the returning cycle the handle at position
\* 1 of group 1 and the handle of group 2 had exited with 0, position 0 of
\* group 1 was still running; the call returned (group 1, 1, 0).
C13_Witness ==
    /\ MultiReturned
    /\ Len(procs1.items) = 2 /\ Len(procs2.items) = 1
    /\ sweepstart = {procs1.items[2], procs2.items[1]}
    /\ atreturn = sweepstart
    /\ ret = [group |-> 1, index |-> 1, code |-> Some(0)]

\* C14: when subprocess_wait_any or subprocess_wait_multi has returned, the
\* handle it names had terminated when it returned, with exit code 0, and
\* the code returned is that exit code; a running handle is never named.
C14_ReallyTerminated ==
    (AnyReturned \/ MultiReturned)
      => /\ ret.index >= 0
         /\ op = "wait_any" => ret.index < N
         /\ (op = "wait_multi" /\ ret.group = 1) => ret.index < Len(procs1.items)
         /\ (op = "wait_multi" /\ ret.group # 1)
              => ret.group = 2 /\ ret.index < Len(procs2.items)
         /\ Named \in atreturn
         /\ exitstatus[Named] = Some(0)
         /\ ret.code = exitstatus[Named]

\* C14 witness: wait_any has returned position 1 after a sleep while the
\* handle at position 0 is still running.
C14_Witness ==
    /\ AnyReturned
    /\ N = 2 /\ slept
    /\ ret = [group |-> 0, index |-> 1, code |-> Some(0)]
    /\ exitstatus[Handle(0)] = None

\* C15: a sweep of subprocess_wait_any that begins after a handle of the
\* collection has terminated with code 0 does not run past that handle and
\* does not end in a sleep: the call returns within that sweep.  A handle
\* that terminated unseen during a sweep is thus seen after one sleep.
C15_BoundedLatency ==
    op = "wait_any"
      => /\ pc = "sleep" => Positions(sweepstart) = {}
         /\ pc = "sweep" => \A k \in Positions(sweepstart) : i <= k
         /\ (pc = "returned" /\ Positions(sweepstart) # {})
              => ret.index <= Lowest(Positions(sweepstart))

\* C15 witness: a handle exited with 0 during a sweep after its own query,
\* the sweep ended without seeing it, and the sweep after the one sleep
\* returned it.
C15_Witness ==
    /\ AnyReturned
    /\ slept
    /\ Handle(ret.index) \in cyclestart
    /\ Handle(ret.index) \in sweepstart
    /\ returncode[Handle(ret.index)] = Some(0)

\* C16: a step of a wait call leaves every process as it is (running or
\* terminated, and its exit code), leaves the caller's collections as they
\* are, and writes nothing but its own locals and result; of a handle it
\* changes only the returncode captured by the status query, from None to
\* the exit code of the process, and only for a handle of its collections.
C16_InCall ==
    /\ op \in {"wait_all", "wait_any", "wait_multi"}
    /\ pc \in {"entry", "sweep", "sweep2", "sleep"}
C16_CallerMoves ==
    <<pc, i, rcodes, ret, exc, returncode, queried, lastpoll>>'
      # <<pc, i, rcodes, ret, exc, returncode, queried, lastpoll>>
C16_Given ==
    IF op = "wait_multi" THEN Members(procs1) \cup Members(procs2)
    ELSE Members(procs)
C16_Step ==
    (C16_InCall /\ C16_CallerMoves)
      => /\ UNCHANGED <<exitstatus, procs, procs1, procs2, op>>
         /\ UNCHANGED <<suppress, devnull, pending>>
         /\ \A h \in Procs :
              returncode'[h] # returncode[h]
                => /\ returncode[h] = None
                   /\ returncode'[h] = exitstatus[h]
                   /\ h \in C16_Given

C16_ReadOnly == [][C16_Step]_vars

\* C16 witness: wait_all has just captured the code of the handle at
\* position 0 in its first sweep; the handle at position 1 is still running.
C16_Witness ==
    /\ op = "wait_all" /\ pc = "sweep" /\ i = 1 /\ ~slept
    /\ N = 2
    /\ rcodes = <<Some(0), None>>
    /\ returncode[Handle(0)] = Some(0)
    /\ exitstatus[Handle(1)] = None

\* C17: a subprocess_wait_all call on a non-empty collection whose
\* processes have all terminated with code 0 (in any order, at any moment
\* of the call) eventually returns, the caller's thread being scheduled.
C17_AllExitedZero ==
    /\ op = "wait_all" /\ pc \in {"entry", "sweep", "sleep"}
    /\ ~NullOrEmpty(procs)
    /\ \A h \in Members(procs) : exitstatus[h] = Some(0)
C17_EventuallyReturns == C17_AllExitedZero ~> AllReturned

\* C17 witness: the call has returned after a sleep; the two processes had
\* both exited with 0 when the last sweep began, neither when the call began.
C17_Witness ==
    /\ AllReturned
    /\ N = 2
    /\ slept
    /\ sweepstart = {Handle(0), Handle(1)}
    /\ queried = sweepstart

\* C18: a subprocess_wait_any call on a non-empty collection of which at
\* least one process has terminated with code 0 eventually returns, the
\* caller's thread being scheduled, whatever the other processes do.
C18_OneExitedZero ==
    /\ op = "wait_any" /\ pc \in {"entry", "sweep", "sleep"}
    /\ ~NullOrEmpty(procs)
    /\ \E h \in Members(procs) : exitstatus[h] = Some(0)
C18_EventuallyReturns == C18_OneExitedZero ~> AnyReturned

\* C18 witness: the call has returned position 1 after a sleep, the process
\* at position 0 having terminated with a nonzero code and been seen so.
C18_Witness ==
    /\ AnyReturned
    /\ N = 2
    /\ slept
    /\ returncode[Handle(0)] = Some(1)
    /\ ret = [group |-> 0, index |-> 1, code |-> Some(0)]

\* The scanner both functions are compared with.  It works on one
\* collection: after entry it queries the handles in ascending position,
\* returns at the first answer 0 with that position and that answer, and
\* after the last position sleeps once and begins again at position 0.
\* The collection of it: that of wait_any, the non-empty group of wait_multi.
C19_Scope ==
    \/ op = "wait_any" /\ ~NullOrEmpty(procs)
    \/ op = "wait_multi" /\ NullOrEmpty(procs1) # NullOrEmpty(procs2)
C19_Group ==
    IF op = "wait_any" THEN 0 ELSE IF NullOrEmpty(procs1) THEN 2 ELSE 1
C19_Items ==
    IF op = "wait_any" THEN procs.items
    ELSE IF NullOrEmpty(procs1) THEN procs2.items ELSE procs1.items
C19_Phase == IF pc \in {"sweep", "sweep2"} THEN "scan" ELSE pc
\* Position the scan of the collection has come to (its length: scan over).
C19_Pos ==
    IF pc = "sweep" THEN (IF C19_Group = 2 THEN 0 ELSE i)
    ELSE IF pc = "sweep2" THEN (IF C19_Group = 2 THEN i ELSE Len(C19_Items))
    ELSE 0
C19_Seen == <<returncode, lastpoll, queried>>
C19_Abs == <<C19_Phase, C19_Pos, ret, C19_Seen, slept>>
C19_Enter ==
    /\ C19_Phase = "entry" /\ C19_Phase' = "scan" /\ C19_Pos' = 0
    /\ UNCHANGED <<ret, C19_Seen, slept>>
C19_Query ==
    /\ C19_Phase = "scan" /\ C19_Pos < Len(C19_Items)
    /\ LET h == C19_Items[C19_Pos + 1]
           a == lastpoll'.rc
       IN  /\ lastpoll'.h = h
           /\ a = (IF returncode[h] # None THEN returncode[h]
                                          ELSE exitstatus[h])
           /\ returncode' = [returncode EXCEPT ![h] = a]
           /\ queried' = queried \cup {h}
           /\ IF a = Some(0)
                THEN /\ C19_Phase' = "returned"
                     /\ ret' = [group |-> C19_Group, index |-> C19_Pos,
                                code |-> a]
                ELSE /\ C19_Phase' = "scan"
                     /\ C19_Pos' = C19_Pos + 1
                     /\ ret' = ret
    /\ UNCHANGED slept
C19_ToSleep ==
    /\ C19_Phase = "scan" /\ C19_Pos = Len(C19_Items)
    /\ C19_Phase' = "sleep"
    /\ UNCHANGED <<ret, C19_Seen, slept>>
C19_Wake ==
    /\ C19_Phase = "sleep" /\ C19_Phase' = "scan" /\ C19_Pos' = 0
    /\ slept'
    /\ UNCHANGED <<ret, C19_Seen>>

\* C19: subprocess_wait_multi with exactly one group None or empty behaves
\* as subprocess_wait_any on the other group.  Every step of either call
\* is a step of the same scanner of that collection (or changes nothing the
\* scanner has): the same handles are queried in the same order, the same
\* sleeps are taken between the same sweeps, and the call returns at the
\* same query with the same position and exit code; wait_multi names the
\* non-empty group.
C19_Step ==
    C19_Scope
      => \/ C19_Abs' = C19_Abs
         \/ C19_Enter
         \/ C19_Query
         \/ C19_ToSleep
         \/ C19_Wake
C19_SameAsWaitAny == [][C19_Step]_vars

\* C19 witness: wait_multi was given an empty list and a group of two; it
\* has returned (group 2, position 1, code 0) in a sweep after a sleep, the
\* handle at position 0 having been seen terminated with code 1.
C19_Witness ==
    /\ MultiReturned
    /\ ~procs1.isNone /\ procs1.items = <<>>
    /\ Len(procs2.items) = 2
    /\ slept
    /\ returncode[procs2.items[1]] = Some(1)
    /\ ret = [group |-> 2, index |-> 1, code |-> Some(0)]

====
